---- MODULE Spec2Model ----
(***************************************************************************)
(* NewsEncoder (src/model/news_encoder.py): the component selection made   *)
(* by the constructor and the path forward takes through the components.   *)
(* Tensors are modelled by their shape and by the ordered log of the       *)
(* inputs and operations they were computed from; numerical values are     *)
(* not modelled.                                                           *)
(***************************************************************************)
EXTENDS Integers, Sequences, FiniteSets, TLC

VARIABLES
    pc,            \* where the program is: "new", "built", "failed", "idle",
                   \* or inside forward: "title", "sapo", "category",
                   \* "pooling", "returned", "raised"
    args,          \* the arguments of the constructor call
    self,          \* the NewsEncoder instance
    none_mask_ok,  \* whether AdditiveAttention accepts mask=None
    inputs,        \* the arguments of the forward call in progress
    title_repr,    \* forward's local title_repr
    news_info,     \* forward's local list news_info
    stacked,       \* news_info after torch.stack
    mask,          \* forward's local mask
    result,        \* the value forward returned
    trace,         \* the sub-modules forward has invoked, in order
    error,         \* what raised, "" if nothing
    prev           \* the previous completed call of forward

vars == <<pc, args, self, none_mask_ok, inputs, title_repr, news_info,
          stacked, mask, result, trace, error, prev>>

\* Python's None for the Union[int, None] constructor arguments.
None == -1

\* ------------------------------------------------------------------------
\* Values the caller may supply.
HiddenSizes == {6}          \* config.hidden_size
WordEmbedDims == {4}        \* word_embed_dim
NumCnnFilters == {3}        \* num_cnn_filters
WindowSizes == {2}          \* window_size
CategoryEmbedDims == {5}    \* category_embed_dim
NumCategories == {2}        \* num_category
PretrainedShapes == {<<2, 7>>}   \* category_embed.shape
CategoryPadIds == {0, 2}    \* category_pad_token_id
BatchSizes == {2, 3}         \* batch_size
TitleLengths == {3}         \* title_length
SapoLengths == {8, 9}       \* sapo_length
MaxTag == 2                 \* distinguishable contents of a category input
TagNames == <<"a", "b", "c", "d">>
Tags == {TagNames[i] : i \in 1..MaxTag}

Opt(S) == S \cup {None}

\* category_embed is None, or a 2-d tensor given by its shape.
NoShape == <<>>

ModuleNames ==
    {"reduce_dim", "word_embed_dropout", "title_cnn", "title_dropout",
     "title_additive_attn", "sapo_cnn", "sapo_dropout", "sapo_additive_attn",
     "category_embedding", "category_dense_layer", "attn_pooling"}

\* An attribute the constructor has not assigned.
NoModule == [built |-> FALSE, kind |-> "", inF |-> 0, outF |-> 0]

Module(kind, inF, outF) ==
    [built |-> TRUE, kind |-> kind, inF |-> inF, outF |-> outF]

ConstructorArgs ==
    [hidden_size : HiddenSizes,
     apply_reduce_dim : BOOLEAN, use_cls_embed : BOOLEAN,
     use_sapo : BOOLEAN, use_category : BOOLEAN,
     category_pad_token_id : CategoryPadIds,
     category_embed_dim : Opt(CategoryEmbedDims),
     category_embed : PretrainedShapes \cup {NoShape},
     num_category : Opt(NumCategories),
     num_cnn_filters : Opt(NumCnnFilters),
     window_size : Opt(WindowSizes),
     word_embed_dim : Opt(WordEmbedDims)]

NoArgs ==
    [hidden_size |-> 0,
     apply_reduce_dim |-> FALSE, use_cls_embed |-> FALSE,
     use_sapo |-> FALSE, use_category |-> FALSE,
     category_pad_token_id |-> 0, category_embed_dim |-> None,
     category_embed |-> NoShape, num_category |-> None,
     num_cnn_filters |-> None, window_size |-> None, word_embed_dim |-> None]

\* ------------------------------------------------------------------------
\* The constructor, block by block.  An object under construction is a
\* record: err names the statement that raised ("" while none has).
NewObject(a) ==
    [err |-> "",
     apply_reduce_dim |-> a.apply_reduce_dim,
     use_cls_embed |-> FALSE, use_sapo |-> FALSE, use_category |-> FALSE,
     hidden_size |-> a.hidden_size,
     embed_dim |-> 0,
     modules |-> [n \in ModuleNames |-> NoModule]]

Raise(o, site) == [o EXCEPT !.err = site]

SetModule(o, name, m) == [o EXCEPT !.modules[name] = m]

\* ReduceDimBlock without "self._embed_dim = word_embed_dim".
ReduceDimBlock_KeepsHiddenSize(o, a) ==
    IF o.apply_reduce_dim
    THEN IF a.word_embed_dim = None
         THEN Raise(o, "assert word_embed_dim")
         ELSE [SetModule(
                 SetModule(o, "reduce_dim",
                           Module("Linear", a.hidden_size, a.word_embed_dim)),
                 "word_embed_dropout", Module("Dropout", 0, 0))
               EXCEPT !.embed_dim = a.hidden_size]
    ELSE [o EXCEPT !.embed_dim = a.hidden_size]

\* if self.apply_reduce_dim: ... else: self._embed_dim = config.hidden_size
ReduceDimBlock(o, a) ==
    IF o.apply_reduce_dim
    THEN IF a.word_embed_dim = None
         THEN Raise(o, "assert word_embed_dim")
         ELSE [SetModule(
                 SetModule(o, "reduce_dim",
                           Module("Linear", a.hidden_size, a.word_embed_dim)),
                 "word_embed_dropout", Module("Dropout", 0, 0))
               EXCEPT !.embed_dim = a.word_embed_dim]
    ELSE [o EXCEPT !.embed_dim = a.hidden_size]

\* self.use_cls_embed = ...; self.use_sapo = ...; self.use_category = ...
FlagsBlock(o, a) ==
    IF o.err # "" THEN o
    ELSE [o EXCEPT !.use_cls_embed = a.use_cls_embed,
                   !.use_sapo = a.use_sapo,
                   !.use_category = a.use_category]

\* SapoCnnBlock that builds the sapo encoder whether or not use_sapo is set.
SapoCnnBlock_Always(o, a) ==
    SetModule(
      SetModule(
        SetModule(o, "sapo_cnn",
                  Module("Conv1d", o.embed_dim, a.num_cnn_filters)),
        "sapo_dropout", Module("Dropout", 0, 0)),
      "sapo_additive_attn",
      Module("AdditiveAttention", a.num_cnn_filters, a.num_cnn_filters))

\* The sapo encoder, built inside the "not use_cls_embed" branch.
SapoCnnBlock(o, a) ==
    IF o.use_sapo
    THEN SetModule(
           SetModule(
             SetModule(o, "sapo_cnn",
                       Module("Conv1d", o.embed_dim, a.num_cnn_filters)),
             "sapo_dropout", Module("Dropout", 0, 0)),
           "sapo_additive_attn",
           Module("AdditiveAttention", a.num_cnn_filters, a.num_cnn_filters))
    ELSE o

\* CnnBlock without "self._embed_dim = num_cnn_filters".
CnnBlock_KeepsEmbedDim(o, a) ==
    IF o.err # "" THEN o
    ELSE IF ~o.use_cls_embed
    THEN IF ~(a.window_size # None /\ a.num_cnn_filters # None)
         THEN Raise(o, "assert window_size and num_cnn_filters")
         ELSE SapoCnnBlock(
                SetModule(
                  SetModule(
                    SetModule(o, "title_cnn",
                              Module("Conv1d", o.embed_dim, a.num_cnn_filters)),
                    "title_dropout", Module("Dropout", 0, 0)),
                  "title_additive_attn",
                  Module("AdditiveAttention", a.num_cnn_filters,
                         a.num_cnn_filters)),
                a)
    ELSE o

\* if not self.use_cls_embed: ...
CnnBlock(o, a) ==
    IF o.err # "" THEN o
    ELSE IF ~o.use_cls_embed
    THEN IF ~(a.window_size # None /\ a.num_cnn_filters # None)
         THEN Raise(o, "assert window_size and num_cnn_filters")
         ELSE [SapoCnnBlock(
                 SetModule(
                   SetModule(
                     SetModule(o, "title_cnn",
                               Module("Conv1d", o.embed_dim, a.num_cnn_filters)),
                     "title_dropout", Module("Dropout", 0, 0)),
                   "title_additive_attn",
                   Module("AdditiveAttention", a.num_cnn_filters,
                          a.num_cnn_filters)),
                 a)
               EXCEPT !.embed_dim = a.num_cnn_filters]
    ELSE o

\* torch.nn.Embedding(num_embeddings, embedding_dim, padding_idx): the
\* library rejects a missing embedding_dim and a padding index outside the
\* table.
EmbeddingAccepts(num_embeddings, embedding_dim, padding_idx) ==
    /\ embedding_dim # None
    /\ padding_idx < num_embeddings

\* CategoryBlock that asserts num_category before looking at category_embed.
CategoryBlock_AssertsFirst(o, a) ==
    IF o.err # "" THEN o
    ELSE IF o.use_category
    THEN IF a.num_category = None
         THEN Raise(o, "assert num_category")
         ELSE IF a.category_embed # NoShape
         THEN IF ~EmbeddingAccepts(a.category_embed[1], a.category_embed[2],
                                   a.category_pad_token_id)
              THEN Raise(o, "nn.Embedding")
              ELSE SetModule(
                     SetModule(o, "category_embedding",
                               Module("Embedding", a.category_embed[1],
                                      a.category_embed[2])),
                     "category_dense_layer",
                     Module("Linear+ReLU", a.category_embed[2], o.embed_dim))
         ELSE IF ~EmbeddingAccepts(a.num_category, a.category_embed_dim,
                                   a.category_pad_token_id)
              THEN Raise(o, "nn.Embedding")
              ELSE SetModule(
                     SetModule(o, "category_embedding",
                               Module("Embedding", a.num_category,
                                      a.category_embed_dim)),
                     "category_dense_layer",
                     Module("Linear+ReLU", a.category_embed_dim, o.embed_dim))
    ELSE o

\* CategoryBlock without "category_embed_dim = category_embed.shape[1]".
CategoryBlock_NoOverride(o, a) ==
    IF o.err # "" THEN o
    ELSE IF o.use_category
    THEN IF a.category_embed # NoShape
         THEN IF ~EmbeddingAccepts(a.category_embed[1], a.category_embed[2],
                                   a.category_pad_token_id)
              THEN Raise(o, "nn.Embedding")
              ELSE SetModule(
                     SetModule(o, "category_embedding",
                               Module("Embedding", a.category_embed[1],
                                      a.category_embed[2])),
                     "category_dense_layer",
                     Module("Linear+ReLU", a.category_embed_dim, o.embed_dim))
         ELSE IF a.num_category = None
              THEN Raise(o, "assert num_category")
              ELSE IF ~EmbeddingAccepts(a.num_category, a.category_embed_dim,
                                        a.category_pad_token_id)
              THEN Raise(o, "nn.Embedding")
              ELSE SetModule(
                     SetModule(o, "category_embedding",
                               Module("Embedding", a.num_category,
                                      a.category_embed_dim)),
                     "category_dense_layer",
                     Module("Linear+ReLU", a.category_embed_dim, o.embed_dim))
    ELSE o

\* if self.use_category: ...
CategoryBlock(o, a) ==
    IF o.err # "" THEN o
    ELSE IF o.use_category
    THEN IF a.category_embed # NoShape
         THEN IF ~EmbeddingAccepts(a.category_embed[1], a.category_embed[2],
                                   a.category_pad_token_id)
              THEN Raise(o, "nn.Embedding")
              ELSE SetModule(
                     SetModule(o, "category_embedding",
                               Module("Embedding", a.category_embed[1],
                                      a.category_embed[2])),
                     "category_dense_layer",
                     Module("Linear+ReLU", a.category_embed[2], o.embed_dim))
         ELSE IF a.num_category = None
              THEN Raise(o, "assert num_category")
              ELSE IF ~EmbeddingAccepts(a.num_category, a.category_embed_dim,
                                        a.category_pad_token_id)
              THEN Raise(o, "nn.Embedding")
              ELSE SetModule(
                     SetModule(o, "category_embedding",
                               Module("Embedding", a.num_category,
                                      a.category_embed_dim)),
                     "category_dense_layer",
                     Module("Linear+ReLU", a.category_embed_dim, o.embed_dim))
    ELSE o

\* if self.use_sapo or self.use_category: self.attn_pooling = ...
PoolingBlock(o, a) ==
    IF o.err # "" THEN o
    ELSE IF o.use_sapo \/ o.use_category
    THEN SetModule(o, "attn_pooling",
                   Module("AdditiveAttention", o.embed_dim, o.embed_dim))
    ELSE o

\* NewsEncoder.__init__
Construct(a) ==
    PoolingBlock(CategoryBlock(CnnBlock(FlagsBlock(ReduceDimBlock(
        NewObject(a), a), a), a), a), a)

\* ------------------------------------------------------------------------
\* Tensors: a shape and the ordered log of what the value was computed from.
\* NoneT is Python's None passed where a tensor is expected.
NoneT == [shape |-> <<>>, ops |-> <<>>]

IsNone(t) == t.ops = <<>>

Entry(op, arg, tag) == [op |-> op, arg |-> arg, tag |-> tag]

Input(name, tag, shape) ==
    [shape |-> shape, ops |-> <<Entry("input", name, tag)>>]

\* Where a tensor comes from: the name under which it was passed to forward,
\* "ones" for torch.ones, "None" for None.
Origin(t) == IF IsNone(t) THEN "None" ELSE t.ops[1].arg

Last(s) == s[Len(s)]

ReplaceLast(s, v) == [s EXCEPT ![Len(s)] = v]

\* The arguments of one call of forward, shaped as its docstring says; the
\* sapo and category arguments may each be None.
ForwardInputs ==
    UNION { { [title_encoding |-> Input("title_encoding", "a", <<b, tl>>),
               title_attn_mask |-> Input("title_attn_mask", "a", <<b, tl>>),
               sapo_encoding |-> se, sapo_attn_mask |-> sm,
               category_encoding |-> ce] :
              tl \in TitleLengths,
              se \in {NoneT} \cup {Input("sapo_encoding", "a", <<b, sl>>) :
                                     sl \in SapoLengths},
              sm \in {NoneT} \cup {Input("sapo_attn_mask", "a", <<b, sl>>) :
                                     sl \in SapoLengths},
              ce \in {NoneT} \cup {Input("category_encoding", g, <<b>>) :
                                     g \in Tags} } : b \in BatchSizes }

NoInputs ==
    [title_encoding |-> NoneT, title_attn_mask |-> NoneT,
     sapo_encoding |-> NoneT, sapo_attn_mask |-> NoneT,
     category_encoding |-> NoneT]

\* ------------------------------------------------------------------------
\* The operations of forward.  A computation in progress is a record: err
\* names what raised ("" while nothing has), t is the current tensor and
\* trace lists the sub-modules invoked so far, in order.
Begin(tr) == [err |-> "", t |-> NoneT, trace |-> tr]

Fail(r, what) == [r EXCEPT !.err = what]

Emit(r, shape, entry) ==
    [r EXCEPT !.t = [shape |-> shape, ops |-> r.t.ops \o <<entry>>]]

Invoke(r, name) == [r EXCEPT !.trace = r.trace \o <<name>>]

\* self.roberta(input_ids=..., attention_mask=...)[0]: the library raises
\* on input_ids None and on a mask of another shape, and uses a mask of
\* ones when attention_mask is None.
Roberta(o, r, input_ids, attention_mask) ==
    IF r.err # "" THEN r
    ELSE IF IsNone(input_ids) THEN Fail(Invoke(r, "roberta"), "roberta: input_ids")
    ELSE IF ~IsNone(attention_mask) /\ attention_mask.shape # input_ids.shape
    THEN Fail(Invoke(r, "roberta"), "roberta: attention_mask")
    ELSE Emit([Invoke(r, "roberta") EXCEPT !.t = input_ids],
              input_ids.shape \o <<o.hidden_size>>,
              Entry("call", "roberta", Origin(attention_mask)))

\* nn.Linear applied to the last dimension.
Linear(o, r, name) ==
    IF r.err # "" THEN r
    ELSE IF ~o.modules[name].built THEN Fail(r, "AttributeError")
    ELSE IF Last(r.t.shape) # o.modules[name].inF
    THEN Fail(Invoke(r, name), "shape")
    ELSE Emit(Invoke(r, name), ReplaceLast(r.t.shape, o.modules[name].outF),
              Entry("call", name, ""))

\* nn.Dropout keeps the shape.
Dropout(o, r, name) ==
    IF r.err # "" THEN r
    ELSE IF ~o.modules[name].built THEN Fail(r, "AttributeError")
    ELSE Emit(Invoke(r, name), r.t.shape, Entry("call", name, ""))

\* x[:, 0, :]
SelectFirst(r) ==
    IF r.err # "" THEN r
    ELSE Emit(r, <<r.t.shape[1], r.t.shape[3]>>, Entry("select", "0", ""))

\* x.transpose(1, 2).contiguous()
Transpose(r) ==
    IF r.err # "" THEN r
    ELSE Emit(r, <<r.t.shape[1], r.t.shape[3], r.t.shape[2]>>,
              Entry("transpose", "1,2", ""))

\* nn.Conv1d with padding='same': (batch, in_channels, length) to
\* (batch, out_channels, length).
Conv1d(o, r, name) ==
    IF r.err # "" THEN r
    ELSE IF ~o.modules[name].built THEN Fail(r, "AttributeError")
    ELSE IF r.t.shape[2] # o.modules[name].inF
    THEN Fail(Invoke(r, name), "shape")
    ELSE Emit(Invoke(r, name),
              <<r.t.shape[1], o.modules[name].outF, r.t.shape[3]>>,
              Entry("call", name, ""))

\* AdditiveAttention (src/model/additive_attention.py): embeddings of shape
\* (batch, n, embed_dim) and a mask of shape (batch, n) give one vector of
\* shape (batch, embed_dim).  Whether it accepts a mask of None is a fixed
\* but unknown property of that class (none_mask_ok).
AdditiveAttention(o, r, name, msk) ==
    IF r.err # "" THEN r
    ELSE IF ~o.modules[name].built THEN Fail(r, "AttributeError")
    ELSE IF \/ Last(r.t.shape) # o.modules[name].inF
            \/ ~IsNone(msk) /\ msk.shape # <<r.t.shape[1], r.t.shape[2]>>
    THEN Fail(Invoke(r, name), "shape")
    ELSE IF IsNone(msk) /\ ~none_mask_ok THEN Fail(Invoke(r, name), "mask")
    ELSE Emit(Invoke(r, name), <<r.t.shape[1], o.modules[name].outF>>,
              Entry("call", name, Origin(msk)))

\* nn.Embedding lookup: one vector per index.
Embedding(o, r, name, index) ==
    IF r.err # "" THEN r
    ELSE IF ~o.modules[name].built THEN Fail(r, "AttributeError")
    ELSE IF IsNone(index) THEN Fail(Invoke(r, name), "embedding: index")
    ELSE Emit([Invoke(r, name) EXCEPT !.t = index],
              index.shape \o <<o.modules[name].outF>>,
              Entry("call", name, ""))

\* The word embedding of one text: lines 108-111 and 124-127.
WordEmbed(o, tr, encoding, attn_mask) ==
    IF o.apply_reduce_dim
    THEN Dropout(o, Linear(o, Roberta(o, Begin(tr), encoding, attn_mask),
                           "reduce_dim"), "word_embed_dropout")
    ELSE Roberta(o, Begin(tr), encoding, attn_mask)

\* TextRepr with the dropout applied before the convolution.
TextRepr_DropoutFirst(o, tr, encoding, attn_mask, cnn, dropout, attn) ==
    IF o.use_cls_embed
    THEN SelectFirst(WordEmbed(o, tr, encoding, attn_mask))
    ELSE AdditiveAttention(o,
           Transpose(Conv1d(o,
             Transpose(Dropout(o, WordEmbed(o, tr, encoding, attn_mask),
                               dropout)), cnn)),
           attn, attn_mask)

\* The representation of one text: lines 112-119 and 128-135.
TextRepr(o, tr, encoding, attn_mask, cnn, dropout, attn) ==
    IF o.use_cls_embed
    THEN SelectFirst(WordEmbed(o, tr, encoding, attn_mask))
    ELSE AdditiveAttention(o,
           Dropout(o, Transpose(Conv1d(o,
             Transpose(WordEmbed(o, tr, encoding, attn_mask)), cnn)), dropout),
           attn, attn_mask)

\* lines 108-119
TitleRepr(o, tr, inp) ==
    TextRepr(o, tr, inp.title_encoding, inp.title_attn_mask,
             "title_cnn", "title_dropout", "title_additive_attn")

\* lines 124-135
SapoRepr(o, tr, inp) ==
    TextRepr(o, tr, inp.sapo_encoding, inp.sapo_attn_mask,
             "sapo_cnn", "sapo_dropout", "sapo_additive_attn")

\* lines 141-142
CategoryRepr(o, tr, inp) ==
    Linear(o, Embedding(o, Begin(tr), "category_embedding",
                        inp.category_encoding), "category_dense_layer")

\* SapoEnabled that also runs the sapo encoder whenever a sapo is passed.
SapoEnabled_IfGiven(o, inp) == o.use_sapo \/ ~IsNone(inp.sapo_encoding)

\* if self.use_sapo: (line 123)
SapoEnabled(o, inp) == o.use_sapo

\* if self.use_category: (line 140)
CategoryEnabled(o, inp) == o.use_category

\* PoolingEnabled that forgets use_category.
PoolingEnabled_SapoOnly(o) == o.use_sapo

\* if self.use_category or self.use_sapo: (line 146)
PoolingEnabled(o) == o.use_category \/ o.use_sapo

RECURSIVE ConcatOps(_)
ConcatOps(ts) ==
    IF ts = <<>> THEN <<>> ELSE Head(ts).ops \o ConcatOps(Tail(ts))

\* torch.stack(news_info, dim=1): all tensors must have the same shape.
Stack(r, ts) ==
    IF \E i \in 1..Len(ts) : ts[i].shape # ts[1].shape
    THEN Fail(r, "stack")
    ELSE [r EXCEPT !.t = [shape |-> <<ts[1].shape[1], Len(ts), ts[1].shape[2]>>,
                          ops |-> ConcatOps(ts)
                                  \o <<Entry("stack", "dim=1", "")>>]]

\* torch.ones(shape, dtype=torch.bool)
Ones(shape) == [shape |-> shape, ops |-> <<Entry("ones", "ones", "")>>]

\* The embed_dim property (lines 154-156).
EmbedDim(o) == o.embed_dim

\* ------------------------------------------------------------------------
NoCall == [done |-> FALSE, inputs |-> NoInputs, result |-> NoneT,
           trace |-> <<>>, error |-> ""]

Init ==
    /\ pc = "new"
    /\ args = NoArgs
    /\ self = NewObject(NoArgs)
    /\ none_mask_ok \in BOOLEAN
    /\ inputs = NoInputs
    /\ title_repr = NoneT
    /\ news_info = <<>>
    /\ stacked = NoneT
    /\ mask = NoneT
    /\ result = NoneT
    /\ trace = <<>>
    /\ error = ""
    /\ prev = NoCall

locals == <<inputs, title_repr, news_info, stacked, mask, result, trace>>

\* NewsEncoder(config, ...): the constructor runs to its end or raises.
New ==
    /\ pc = "new"
    /\ \E a \in ConstructorArgs :
         /\ args' = a
         /\ self' = Construct(a)
         /\ error' = Construct(a).err
         /\ pc' = IF Construct(a).err = "" THEN "built" ELSE "failed"
    /\ UNCHANGED <<none_mask_ok, locals, prev>>

\* The constructor returns the instance; its arguments go out of scope.
Built ==
    /\ pc = "built"
    /\ pc' = "idle"
    /\ args' = NoArgs
    /\ UNCHANGED <<self, none_mask_ok, locals, error, prev>>

\* A call of forward begins (line 106).
Forward ==
    /\ pc = "idle"
    /\ \E inp \in ForwardInputs : inputs' = inp
    /\ news_info' = <<>>
    /\ pc' = "title"
    /\ UNCHANGED <<args, self, none_mask_ok, title_repr, stacked, mask,
                   result, trace, error, prev>>

\* A step of forward that raised: the exception leaves forward.
Raised(r) ==
    /\ pc' = "raised"
    /\ error' = r.err
    /\ trace' = r.trace
    /\ UNCHANGED <<title_repr, news_info, stacked, mask, result>>

\* Title encoder (lines 108-120).
TitleEncoder ==
    /\ pc = "title"
    /\ LET r == TitleRepr(self, trace, inputs) IN
         IF r.err # "" THEN Raised(r)
         ELSE /\ title_repr' = r.t
              /\ news_info' = Append(news_info, r.t)
              /\ trace' = r.trace
              /\ pc' = "sapo"
              /\ UNCHANGED <<stacked, mask, result, error>>
    /\ UNCHANGED <<args, self, none_mask_ok, inputs, prev>>

\* Sapo encoder (lines 123-137).
SapoEncoder ==
    /\ pc = "sapo"
    /\ IF SapoEnabled(self, inputs)
       THEN LET r == SapoRepr(self, trace, inputs) IN
              IF r.err # "" THEN Raised(r)
              ELSE /\ news_info' = Append(news_info, r.t)
                   /\ trace' = r.trace
                   /\ pc' = "category"
                   /\ UNCHANGED <<title_repr, stacked, mask, result, error>>
       ELSE /\ pc' = "category"
            /\ UNCHANGED <<title_repr, news_info, stacked, mask, result,
                           trace, error>>
    /\ UNCHANGED <<args, self, none_mask_ok, inputs, prev>>

\* Category encoder (lines 140-143).
CategoryEncoder ==
    /\ pc = "category"
    /\ IF CategoryEnabled(self, inputs)
       THEN LET r == CategoryRepr(self, trace, inputs) IN
              IF r.err # "" THEN Raised(r)
              ELSE /\ news_info' = Append(news_info, r.t)
                   /\ trace' = r.trace
                   /\ pc' = "pooling"
                   /\ UNCHANGED <<title_repr, stacked, mask, result, error>>
       ELSE /\ pc' = "pooling"
            /\ UNCHANGED <<title_repr, news_info, stacked, mask, result,
                           trace, error>>
    /\ UNCHANGED <<args, self, none_mask_ok, inputs, prev>>

\* Attentive pooling and return (lines 146-152).
AttentivePooling ==
    /\ pc = "pooling"
    /\ IF PoolingEnabled(self)
       THEN LET s == Stack(Begin(trace), news_info)
                m == Ones(<<s.t.shape[1], s.t.shape[2]>>)
                r == AdditiveAttention(self, s, "attn_pooling", m)
            IN IF r.err # "" THEN Raised(r)
               ELSE /\ stacked' = s.t
                    /\ mask' = m
                    /\ result' = r.t
                    /\ trace' = r.trace
                    /\ pc' = "returned"
                    /\ UNCHANGED <<title_repr, news_info, error>>
       ELSE /\ result' = title_repr
            /\ pc' = "returned"
            /\ UNCHANGED <<title_repr, news_info, stacked, mask, trace, error>>
    /\ UNCHANGED <<args, self, none_mask_ok, inputs, prev>>

\* forward is over, by return or by exception: its locals are gone and the
\* call is remembered as the previous one.
Finish ==
    /\ pc \in {"returned", "raised"}
    /\ prev' = [done |-> TRUE, inputs |-> inputs, result |-> result,
                trace |-> trace, error |-> error]
    /\ pc' = "idle"
    /\ inputs' = NoInputs
    /\ title_repr' = NoneT
    /\ news_info' = <<>>
    /\ stacked' = NoneT
    /\ mask' = NoneT
    /\ result' = NoneT
    /\ trace' = <<>>
    /\ error' = ""
    /\ UNCHANGED <<args, self, none_mask_ok>>

Next ==
    \/ New
    \/ Built
    \/ Forward
    \/ TitleEncoder
    \/ SapoEncoder
    \/ CategoryEncoder
    \/ AttentivePooling
    \/ Finish

Spec == Init /\ [][Next]_vars

\* ------------------------------------------------------------------------
\* Properties.
Range(q) == {q[i] : i \in 1..Len(q)}

BatchSize(inp) == inp.title_encoding.shape[1]

Bit(b) == IF b THEN 1 ELSE 0

InForward == pc \in {"title", "sapo", "category", "pooling", "returned", "raised"}

\* The inputs a call needs under the flags of the instance are present and
\* shaped alike.
WellFormed(o, inp) ==
    /\ o.use_sapo =>
         /\ ~IsNone(inp.sapo_encoding)
         /\ ~IsNone(inp.sapo_attn_mask)
         /\ inp.sapo_attn_mask.shape = inp.sapo_encoding.shape
    /\ o.use_category => ~IsNone(inp.category_encoding)

\* C1: whenever forward returns, on the pooled path and on the title-only
\* path, the result has shape (batch_size, embed_dim) with embed_dim the
\* property of the same instance; and forward raises only when an input its
\* flags require is missing or misshaped.
C1_ForwardShape ==
    /\ pc = "returned" =>
         result.shape = <<BatchSize(inputs), EmbedDim(self)>>
    /\ pc = "raised" => ~WellFormed(self, inputs)

C1_Witness ==
    /\ pc = "returned"
    /\ self.use_sapo /\ self.use_category
    /\ ~self.use_cls_embed /\ self.apply_reduce_dim
    /\ result.shape = <<BatchSize(inputs), EmbedDim(self)>>

\* The inputs behind the components, in the order title, sapo, category.
ExpectedComponents(o) ==
    <<"title_encoding">>
    \o (IF o.use_sapo THEN <<"sapo_encoding">> ELSE <<>>)
    \o (IF o.use_category THEN <<"category_encoding">> ELSE <<>>)

\* C2: forward pools iff use_sapo or use_category; it then pools exactly
\* 1 + [use_sapo] + [use_category] vectors stacked in the order title, sapo,
\* category under a mask of ones over every component; otherwise it returns
\* the title representation itself.
C2_PoolingIff ==
    pc = "returned" =>
      IF self.use_sapo \/ self.use_category
      THEN /\ Len(SelectSeq(trace, LAMBDA n : n = "attn_pooling")) = 1
           /\ Last(trace) = "attn_pooling"
           /\ Len(news_info) = 1 + Bit(self.use_sapo) + Bit(self.use_category)
           /\ [i \in 1..Len(news_info) |-> Origin(news_info[i])]
                = ExpectedComponents(self)
           /\ news_info[1] = title_repr
           /\ stacked.shape = <<BatchSize(inputs), Len(news_info), EmbedDim(self)>>
           /\ stacked.ops = ConcatOps(news_info) \o <<Entry("stack", "dim=1", "")>>
           /\ mask = Ones(<<BatchSize(inputs), Len(news_info)>>)
           /\ result.ops = stacked.ops \o <<Entry("call", "attn_pooling", "ones")>>
      ELSE /\ "attn_pooling" \notin Range(trace)
           /\ stacked = NoneT
           /\ result = title_repr

C2_Witness ==
    /\ pc = "returned"
    /\ ~self.use_sapo /\ self.use_category
    /\ Len(news_info) = 2
    /\ Last(trace) = "attn_pooling"

\* Two calls give the same arguments for everything but the inputs whose
\* flag is off.
AgreeOnEnabled(o, i1, i2) ==
    /\ i1.title_encoding = i2.title_encoding
    /\ i1.title_attn_mask = i2.title_attn_mask
    /\ o.use_sapo => /\ i1.sapo_encoding = i2.sapo_encoding
                     /\ i1.sapo_attn_mask = i2.sapo_attn_mask
    /\ o.use_category => i1.category_encoding = i2.category_encoding

\* The inputs a tensor was computed from, masks included.
ReadBy(t) ==
    {t.ops[i].arg : i \in {j \in 1..Len(t.ops) : t.ops[j].op = "input"}}
    \cup {t.ops[i].tag : i \in {j \in 1..Len(t.ops) : t.ops[j].op = "call"}}

\* C3: with use_sapo off the result is computed from neither sapo_encoding
\* nor sapo_attn_mask, with use_category off not from category_encoding; a
\* call that differs from the previous one only in inputs whose flag is off
\* invokes the same sub-modules and ends the same way, with the same result.
C3_DisabledInputsIgnored ==
    /\ (pc = "returned" /\ ~self.use_sapo) =>
         ReadBy(result) \cap {"sapo_encoding", "sapo_attn_mask"} = {}
    /\ (pc = "returned" /\ ~self.use_category) =>
         "category_encoding" \notin ReadBy(result)
    /\ (pc \in {"returned", "raised"} /\ prev.done
        /\ AgreeOnEnabled(self, inputs, prev.inputs)) =>
         /\ result = prev.result
         /\ trace = prev.trace
         /\ error = prev.error

C3_Witness ==
    /\ pc = "returned" /\ prev.done /\ prev.error = ""
    /\ ~self.use_sapo /\ ~self.use_category
    /\ AgreeOnEnabled(self, inputs, prev.inputs)
    /\ IsNone(inputs.sapo_encoding) /\ ~IsNone(prev.inputs.sapo_encoding)
    /\ IsNone(inputs.sapo_attn_mask) /\ ~IsNone(prev.inputs.sapo_attn_mask)
    /\ ~IsNone(inputs.category_encoding) /\ IsNone(prev.inputs.category_encoding)

\* C4: after construction embed_dim is num_cnn_filters when use_cls_embed
\* is false, word_embed_dim when use_cls_embed and apply_reduce_dim are
\* true, config.hidden_size when use_cls_embed is true and apply_reduce_dim
\* false, whatever use_sapo and use_category are; nothing after the
\* constructor changes it.
C4_EmbedDim ==
    /\ [](pc = "built" =>
            EmbedDim(self) =
              IF ~args.use_cls_embed THEN args.num_cnn_filters
              ELSE IF args.apply_reduce_dim THEN args.word_embed_dim
              ELSE args.hidden_size)
    /\ [][pc # "new" => EmbedDim(self') = EmbedDim(self)]_vars

C4_Witness ==
    /\ pc = "returned"
    /\ ~self.use_cls_embed /\ self.apply_reduce_dim
    /\ self.use_sapo /\ self.use_category
    /\ EmbedDim(self) \in NumCnnFilters

\* The sub-module calls a tensor went through, in order.
Calls(t) == SelectSeq(t.ops, LAMBDA e : e.op = "call")

\* The calls behind the word embedding of a text.
WordEmbedCalls(o, mask_name) ==
    <<Entry("call", "roberta", mask_name)>>
    \o (IF o.apply_reduce_dim
        THEN <<Entry("call", "reduce_dim", ""),
               Entry("call", "word_embed_dropout", "")>>
        ELSE <<>>)

\* C5: use_cls_embed alone selects the pathway.  With it, a text
\* representation is the word embedding at position 0, with no convolution,
\* dropout after convolution or additive attention; without it, it is the
\* word embedding put through the text's convolution, then its dropout,
\* then its additive attention under the text's own attention mask.
TextPathway(o, t, mask_name, cnn, dropout, attn) ==
    IF o.use_cls_embed
    THEN /\ Calls(t) = WordEmbedCalls(o, mask_name)
         /\ Last(t.ops) = Entry("select", "0", "")
    ELSE /\ Calls(t) = WordEmbedCalls(o, mask_name)
                       \o <<Entry("call", cnn, ""), Entry("call", dropout, ""),
                            Entry("call", attn, mask_name)>>
         /\ \A i \in 1..Len(t.ops) : t.ops[i].op # "select"

C5_Pathway ==
    /\ pc \in {"sapo", "category", "pooling", "returned"} =>
         TextPathway(self, title_repr, "title_attn_mask",
                     "title_cnn", "title_dropout", "title_additive_attn")
    /\ (pc \in {"category", "pooling", "returned"} /\ self.use_sapo) =>
         TextPathway(self, news_info[2], Origin(inputs.sapo_attn_mask),
                     "sapo_cnn", "sapo_dropout", "sapo_additive_attn")

C5_Witness ==
    /\ pc = "category"
    /\ self.use_sapo /\ ~self.use_cls_embed
    /\ Origin(inputs.sapo_attn_mask) = "sapo_attn_mask"
    /\ Len(Calls(news_info[2])) = 4

\* The assert statements of the constructor.
AssertSites ==
    {"assert word_embed_dim", "assert window_size and num_cnn_filters",
     "assert num_category"}

AssertCase(a) ==
    \/ a.apply_reduce_dim /\ a.word_embed_dim = None
    \/ ~a.use_cls_embed /\ (a.window_size = None \/ a.num_cnn_filters = None)
    \/ a.use_category /\ a.category_embed = NoShape /\ a.num_category = None

\* C6: an assert of the constructor fails exactly when apply_reduce_dim is
\* set and word_embed_dim is None, or use_cls_embed is off and window_size
\* or num_cnn_filters is None, or use_category is set and category_embed and
\* num_category are both None.
C6_AssertCases ==
    pc \in {"built", "failed"} =>
      ((pc = "failed" /\ error \in AssertSites) <=> AssertCase(args))

C6_Witness ==
    /\ pc = "built"
    /\ ~args.apply_reduce_dim /\ args.word_embed_dim = None
    /\ args.use_cls_embed /\ args.window_size = None
    /\ args.num_cnn_filters = None
    /\ args.use_category /\ args.category_embed # NoShape
    /\ args.num_category = None

\* C7: with use_category and a pretrained category_embed the category
\* vector size is category_embed.shape[1], whatever category_embed_dim and
\* num_category are; pretrained or not, the category dense layer maps the
\* embedding's vector size to embed_dim.
C7_CategorySizes ==
    (pc = "built" /\ args.use_category) =>
      /\ args.category_embed # NoShape =>
           /\ self.modules["category_embedding"].outF = args.category_embed[2]
           /\ self.modules["category_embedding"].inF = args.category_embed[1]
      /\ args.category_embed = NoShape =>
           /\ self.modules["category_embedding"].outF = args.category_embed_dim
           /\ self.modules["category_embedding"].inF = args.num_category
      /\ self.modules["category_dense_layer"].inF
           = self.modules["category_embedding"].outF
      /\ self.modules["category_dense_layer"].outF = EmbedDim(self)

C7_Witness ==
    /\ pc = "built" /\ args.use_category
    /\ args.category_embed # NoShape
    /\ args.category_embed_dim # None
    /\ args.category_embed_dim # args.category_embed[2]
    /\ args.num_category # None
    /\ self.modules["category_dense_layer"].inF = args.category_embed[2]

BuiltModules(o) == {n \in ModuleNames : o.modules[n].built}

\* C8: under every combination of the flags forward invokes only
\* sub-modules the constructor built, and a call that returns has invoked
\* every sub-module the constructor built.
C8_BuiltIffReached ==
    /\ error # "AttributeError"
    /\ InForward => Range(trace) \ {"roberta"} \subseteq BuiltModules(self)
    /\ pc = "returned" => BuiltModules(self) = Range(trace) \ {"roberta"}

C8_Witness ==
    /\ pc = "returned"
    /\ self.apply_reduce_dim /\ ~self.use_cls_embed
    /\ ~self.use_sapo /\ self.use_category
    /\ Cardinality(BuiltModules(self)) = 8

====
